---- MODULE Spec2Model ----
(***************************************************************************)
(* State-machine model of the orchestration core of the civic digital      *)
(* infrastructure platform: the Job Record (coordinator/job_context.py),   *)
(* JobCoordinator (coordinator/coordinator.py), the playbook engine        *)
(* (partnerships/core/workflow_engine.py), the autonomous orchestrator     *)
(* (autonomous-system/02-AI-AGENT-ORCHESTRATOR.py) and the agent factory   *)
(* with its metrics sink (coordinator/agent_factory.py, metrics.py).  Each *)
(* has its specification: Spec and SpecRegistration (coordinator rounds),  *)
(* SpecJob (the Job Record on its own), SpecEngine (one execute_playbook   *)
(* call), SpecEvaluate (one evaluate step on a context with variables),    *)
(* SpecOrchestrator (process_tasks and its retries), SpecFactory           *)
(* (run_with_timeout calls).                                               *)
(*                                                                         *)
(* execute_parallel is modelled at the granularity of asyncio's            *)
(* cooperative scheduling: a task runs atomically from one await to the    *)
(* next; the awaits are the work function call (under wait_for) and the    *)
(* backoff sleep.  The merge step has no await and is one action.          *)
(*                                                                         *)
(* A work function is the environment: each call returns a payload, raises *)
(* an Exception or runs into the timeout, and, since it is called with the *)
(* Job Record itself, may store into the record's artifacts while it runs. *)
(***************************************************************************)
EXTENDS Integers, Sequences, FiniteSets, TLC

\* ------------------------------------------------------------------ bounds
\* Work the model follows on one Job Record, over all rounds: a call of
\* execute_parallel counts 1 and every retry its agents are allowed counts 1;
\* a round starts only if it fits in what is left.
MaxWork == 4
\* Largest max_retries a caller registers: what fits a round of one agent.
MaxRetries == MaxWork - 1

\* ------------------------------------------------------------- value sets
\* The roles JobContext.__post_init__ creates agent_state entries for.
Roles == {"collector", "drafter", "validator"}
\* Names a caller registers.
AgentNames == {"collector", "drafter"}
\* Keys of the artifacts store.
ArtKeys == {"k1", "k2"}
\* Python None where a string is expected.
NoneStr == "<None>"
\* Python None where a timestamp (seconds, a float >= 0) is expected.
NoneNum == -1
\* Messages str(e) of the exceptions a work function raises ("" is Exception()).
ExcMessages == {"", "boom"}
\* Work functions a caller registers (AgentTask.agent_func).
Funcs == {"f1", "f2"}
\* f"Timeout after {timeout_sec}s" with the default timeout_sec = 30.
TimeoutMsg == "Timeout after 30s"

\* The empty dict.
EmptyMap == [k \in {} |-> ""]
\* A work function's return value: None, or a map with an optional "error"
\* field and an optional "artifacts" sub-map (absent = empty here).
NonePayload == [kind |-> "None", error |-> NoneStr, arts |-> EmptyMap]
MapPayload(err, arts) == [kind |-> "map", error |-> err, arts |-> arts]
\* An artifact value, tagged with who stored it and how: the caller at
\* construction ("init"), an agent in the artifacts sub-map of its result
\* ("return"), or a work function writing into the blackboard ("write").
ArtValue(by, via) == [by |-> by, via |-> via]
ArtMaps(a) == {[k \in {x} |-> ArtValue(a, "return")] : x \in ArtKeys}
Payloads(a) ==
    {NonePayload, MapPayload("boom", EmptyMap)}
        \cup {MapPayload(NoneStr, m) : m \in ArtMaps(a)}

\* Python truthiness of an Optional[str] and of an Optional[dict].
TruthyStr(s) == s # NoneStr /\ s # ""
TruthyPayload(p) == p.kind = "map"

\* The wrapper's return value as asyncio.gather hands it to the merge:
\* "dict" {'agent','result','error'}, "exception" (return_exceptions=True),
\* "None" (the function fell off its end), "pending" (not resolved yet).
PendingResult == [kind |-> "pending", result |-> NonePayload, error |-> NoneStr]

VARIABLES
    task, constraints, decisions, artifacts,  \* JobContext fields
    agent_state,                              \* JobContext.agent_state
    agents,                                   \* JobCoordinator.agents, key order
    max_retries,                              \* AgentTask.max_retries by name
    agent_func,                               \* AgentTask.agent_func by name
    reg_log,                                  \* history: functions registered under each name
    metrics,                                  \* JobCoordinator.metrics
    phase,                                    \* "idle" | "running"
    outcome,                                  \* of the execute_parallel that just ended
    ctx,                                      \* agent_context of each task
    pc,                                       \* position of each task
    attempt,                                  \* loop index of each task
    results,                                  \* what each task resolved to
    calls,                                    \* history: work-function calls this round
    final,                                    \* history: outcome of each task's last call
    done_order,                               \* history: names in the order the tasks resolved
    slept,                                    \* history: the backoff delays each task slept
    snap,                                     \* history: Job Record when ctx was computed
    state0,                                   \* history: agent_state at round start
    metrics0,                                 \* history: metrics at round start
    budget,                                   \* what is left of MaxWork
    role_asked, view,                         \* a get_agent_context call and what it returned
    name_asked,                               \* history: agent_name of the call just made, if it was update_agent_state
    playbook,                                 \* the playbook execute_playbook was called with
    wf_pc,                                    \* position of the execute_playbook call
    execution_result,                         \* its report
    order,                                    \* what topological_sort returned
    executed,                                 \* history: steps _execute_step ran
    raised_by,                                \* history: where the exception that ended the run came from
    variables,                                \* ExecutionContext.variables
    config,                                   \* that step's config: its criteria
    step_output,                              \* what _execute_step returned for it
    tasks,                                    \* the AgentTask objects made so far
    task_queue,                               \* AutonomousOrchestrator.task_queue
    completed_tasks,                          \* AutonomousOrchestrator.completed_tasks
    loop_pc,                                  \* position of process_tasks
    current,                                  \* the task process_tasks is on, 0 if none
    tries,                                    \* history: execute_task calls on each task
    backoffs,                                 \* history: the delays handle_error slept for each task
    base_agents,                              \* the BaseAgent objects made so far
    run_pc,                                   \* position of each one's run_with_timeout call
    run_result,                               \* what each call returned
    agent_metrics,                            \* global_metrics.agent_metrics
    sink_log                                  \* history: the calls global_metrics received

jobVars == <<task, constraints, decisions, artifacts, agent_state>>
roundVars == <<ctx, pc, attempt, results, calls, final, done_order, slept, snap,
               state0, metrics0>>
taskVars == <<agents, max_retries, agent_func, reg_log>>
coordVars == <<taskVars, metrics, phase, outcome, roundVars,
               budget>>
viewVars == <<role_asked, view, name_asked>>
engineVars == <<playbook, wf_pc, execution_result, order, executed, raised_by>>
stepVars == <<variables, config, step_output>>
orchVars == <<tasks, task_queue, completed_tasks, loop_pc, current, tries, backoffs>>
factoryVars == <<base_agents, run_pc, run_result, agent_metrics, sink_log>>

vars == <<jobVars, coordVars, viewVars, engineVars, stepVars, orchVars, factoryVars>>

\* ------------------------------------------------------------ job_context
\* AgentState(name): status PENDING, error None, result None, no timestamps.
NewAgentState ==
    [status |-> "pending", error |-> NoneStr, result |-> NonePayload,
     timestamp_start |-> NoneNum, timestamp_end |-> NoneNum]

\* JobContext.__post_init__: the three roles get an entry when the caller
\* gave no agent_state; a non-empty agent_state is kept as given.
post_init(given) ==
    IF DOMAIN given = {} THEN [r \in Roles |-> NewAgentState] ELSE given

\* The agent_state arguments a caller constructs the Job Record with.
GivenAgentStates == {EmptyMap, [n \in {"drafter"} |-> NewAgentState]}

\* A view that filters nothing: every role is handed the four fields.
get_agent_context_unfiltered(role) ==
    {"task", "artifacts", "decisions", "constraints"}

\* JobContext.get_agent_context: the keys of the view.  The values are the
\* Job Record's own objects (getattr), not copies.
get_agent_context(role) ==
    CASE role = "collector" -> {"task", "constraints"}
      [] role = "drafter" -> {"task", "artifacts", "decisions", "constraints"}
      [] role = "validator" -> {"task", "artifacts", "constraints"}
      [] OTHER -> {}

\* The Job Record's fields by name.
JobField(k) ==
    CASE k = "task" -> task
      [] k = "constraints" -> constraints
      [] k = "decisions" -> decisions
      [] k = "artifacts" -> artifacts

\* What a work function reads through key k of its context: the live object.
CtxRead(a, k) == JobField(k)

\* An update that creates the entry of a name that has none.
update_agent_state_creating(st, name, status, result, error) ==
    LET old == IF name \in DOMAIN st THEN st[name] ELSE NewAgentState
    IN  [n \in DOMAIN st \cup {name} |->
            IF n = name
            THEN [old EXCEPT
                    !.status = status,
                    !.result = IF TruthyPayload(result) THEN result ELSE @,
                    !.error = IF TruthyStr(error) THEN error ELSE @]
            ELSE st[n]]

\* An update that stamps the entry with the time it was written.
update_agent_state_stamping(st, name, status, result, error) ==
    IF name \in DOMAIN st
    THEN [st EXCEPT ![name] =
            [@ EXCEPT
                !.status = status,
                !.result = IF TruthyPayload(result) THEN result ELSE @,
                !.error = IF TruthyStr(error) THEN error ELSE @,
                !.timestamp_end = 1]]
    ELSE st

\* An update that stores its result and error arguments whatever they are.
update_agent_state_overwriting(st, name, status, result, error) ==
    IF name \in DOMAIN st
    THEN [st EXCEPT ![name] =
            [@ EXCEPT !.status = status, !.result = result, !.error = error]]
    ELSE st

\* JobContext.update_agent_state on the mapping st.
update_agent_state(st, name, status, result, error) ==
    IF name \in DOMAIN st
    THEN [st EXCEPT ![name] =
            [@ EXCEPT
                !.status = status,
                !.result = IF TruthyPayload(result) THEN result ELSE @,
                !.error = IF TruthyStr(error) THEN error ELSE @]]
    ELSE st

\* A merge that keeps the value a key already has (setdefault, not update).
DictKeepExisting(d, e) ==
    [k \in DOMAIN d \cup DOMAIN e |-> IF k \in DOMAIN d THEN d[k] ELSE e[k]]

\* dict.update
DictUpdate(d, e) ==
    [k \in DOMAIN d \cup DOMAIN e |-> IF k \in DOMAIN e THEN e[k] ELSE d[k]]

\* Python truthiness of an Optional[float].
TruthyNum(x) == x # NoneNum /\ x # 0

\* AgentState.latency_ms, in milliseconds.
latency_ms(state) ==
    IF TruthyNum(state.timestamp_start) /\ TruthyNum(state.timestamp_end)
    THEN (state.timestamp_end - state.timestamp_start) * 1000
    ELSE 0

\* JobContext.to_dict: agent_state part of the snapshot.
to_dict ==
    [artifacts |-> artifacts,
     agent_state |-> [n \in DOMAIN agent_state |->
                        [status |-> agent_state[n].status,
                         latency_ms |-> latency_ms(agent_state[n]),
                         error |-> agent_state[n].error]]]

\* ------------------------------------------------------------ coordinator
Registered == {agents[i] : i \in 1..Len(agents)}

RECURSIVE SumRetries(_)
SumRetries(s) == IF s = <<>> THEN 0 ELSE max_retries[Head(s)] + SumRetries(Tail(s))

\* One work-function outcome: "ok" with the payload returned, "raise" with
\* str(e), "timeout"; "none" before the first call ends.
Call(out, p, msg) == [out |-> out, p |-> p, msg |-> msg]
NoCall == Call("none", NonePayload, NoneStr)

\* The locals of an execute_parallel call that is not running.
NoRound ==
    /\ ctx' = [n \in AgentNames |-> {}]
    /\ pc' = [n \in AgentNames |-> "none"]
    /\ attempt' = [n \in AgentNames |-> 0]
    /\ results' = [n \in AgentNames |-> PendingResult]
    /\ calls' = [n \in AgentNames |-> [n_calls |-> 0, n_timeouts |-> 0, funcs |-> {}]]
    /\ final' = [n \in AgentNames |-> NoCall]
    /\ done_order' = <<>>
    /\ slept' = [n \in AgentNames |-> <<>>]
    /\ snap' = [k \in {"task", "constraints", "decisions", "artifacts"} |-> JobField(k)]
    /\ state0' = agent_state
    /\ metrics0' = metrics'

\* register_agent's metrics entry: the attempt count, and total_latency_ms and
\* max_latency_ms as the number of latencies that were folded into them.
NewMetrics == [attempts |-> 0, n_latency |-> 0]

\* JobCoordinator.__init__ on the Job Record: no agent registered, no round run.
CoordFresh ==
    /\ agents = <<>>
    /\ max_retries = [n \in AgentNames |-> 0]
    /\ agent_func = [n \in AgentNames |-> NoneStr]
    /\ reg_log = [n \in AgentNames |-> {}]
    /\ metrics = [n \in AgentNames |-> NewMetrics]
    /\ phase = "idle"
    /\ outcome = "none"
    /\ ctx = [n \in AgentNames |-> {}]
    /\ pc = [n \in AgentNames |-> "none"]
    /\ attempt = [n \in AgentNames |-> 0]
    /\ results = [n \in AgentNames |-> PendingResult]
    /\ calls = [n \in AgentNames |-> [n_calls |-> 0, n_timeouts |-> 0, funcs |-> {}]]
    /\ final = [n \in AgentNames |-> NoCall]
    /\ done_order = <<>>
    /\ slept = [n \in AgentNames |-> <<>>]
    /\ snap = [k \in {"task", "constraints", "decisions", "artifacts"} |-> JobField(k)]
    /\ state0 = agent_state
    /\ metrics0 = metrics
    /\ budget = MaxWork

\* No get_agent_context call was made.
NoView ==
    /\ role_asked = NoneStr
    /\ view = EmptyMap
    /\ name_asked = NoneStr

\* No playbook is executed.
NoPlaybook ==
    /\ playbook = NoneStr
    /\ wf_pc = "none"
    /\ execution_result = NoneStr
    /\ order = <<>>
    /\ executed = <<>>
    /\ raised_by = NoneStr

\* No step is run on its own.
NoStep ==
    /\ variables = EmptyMap
    /\ config = <<>>
    /\ step_output = [status |-> "pending", passed |-> FALSE]

\* No autonomous orchestrator is running.
NoTasks ==
    /\ tasks = <<>>
    /\ task_queue = <<>>
    /\ completed_tasks = <<>>
    /\ loop_pc = "get"
    /\ current = 0
    /\ tries = <<>>
    /\ backoffs = <<>>

\* No BaseAgent was made.
NoBaseAgents ==
    /\ base_agents = <<>>
    /\ run_pc = <<>>
    /\ run_result = <<>>
    /\ agent_metrics = EmptyMap
    /\ sink_log = <<>>

Init ==
    /\ task = "task0"
    /\ constraints = <<"c0">>
    /\ decisions = <<>>
    /\ artifacts = [k \in {"k1"} |-> ArtValue("caller", "init")]
    /\ agent_state \in {post_init(g) : g \in GivenAgentStates}
    /\ CoordFresh
    /\ NoView
    /\ NoPlaybook
    /\ NoStep
    /\ NoTasks
    /\ NoBaseAgents

\* JobCoordinator(job_context) on the same Job Record (a follow-up run).
NewCoordinator ==
    /\ phase = "idle"
    /\ agents' = <<>>
    /\ max_retries' = [n \in AgentNames |-> 0]
    /\ agent_func' = [n \in AgentNames |-> NoneStr]
    /\ reg_log' = [n \in AgentNames |-> {}]
    /\ metrics' = [n \in AgentNames |-> NewMetrics]
    /\ outcome' = "none"
    /\ NoRound
    /\ UNCHANGED <<jobVars, phase, budget>>
    /\ UNCHANGED <<viewVars, engineVars, stepVars, orchVars, factoryVars>>

\* A registration that keeps the task a name already has (setdefault).
register_agent_keep_first(name, r, f) ==
    /\ phase = "idle"
    /\ agents' = IF name \in Registered THEN agents ELSE Append(agents, name)
    /\ max_retries' = IF name \in Registered THEN max_retries
                      ELSE [max_retries EXCEPT ![name] = r]
    /\ agent_func' = IF name \in Registered THEN agent_func
                     ELSE [agent_func EXCEPT ![name] = f]
    /\ reg_log' = [reg_log EXCEPT ![name] = @ \cup {f}]
    /\ metrics' = [metrics EXCEPT ![name] = NewMetrics]
    /\ outcome' = "none"
    /\ NoRound
    /\ UNCHANGED <<jobVars, phase, budget>>
    /\ UNCHANGED <<viewVars, engineVars, stepVars, orchVars, factoryVars>>

\* register_agent(AgentTask(name, agent_func = f, max_retries = r)).
register_agent(name, r, f) ==
    /\ phase = "idle"
    /\ agents' = IF name \in Registered THEN agents ELSE Append(agents, name)
    /\ max_retries' = [max_retries EXCEPT ![name] = r]
    /\ agent_func' = [agent_func EXCEPT ![name] = f]
    /\ reg_log' = [reg_log EXCEPT ![name] = @ \cup {f}]
    /\ metrics' = [metrics EXCEPT ![name] = NewMetrics]
    /\ outcome' = "none"
    /\ NoRound
    /\ UNCHANGED <<jobVars, phase, budget>>
    /\ UNCHANGED <<viewVars, engineVars, stepVars, orchVars, factoryVars>>

\* execute_parallel, lines 47-66: compute every agent's context, create the
\* tasks and hand them to asyncio.gather.  No task has run yet.
execute_parallel ==
    /\ phase = "idle"
    /\ 1 + SumRetries(agents) <= budget
    /\ budget' = budget - (1 + SumRetries(agents))
    /\ phase' = "running"
    /\ outcome' = "none"
    /\ ctx' = [n \in AgentNames |->
                 IF n \in Registered THEN get_agent_context(n) ELSE {}]
    /\ pc' = [n \in AgentNames |-> IF n \in Registered THEN "created" ELSE "none"]
    /\ attempt' = [n \in AgentNames |-> 0]
    /\ results' = [n \in AgentNames |-> PendingResult]
    /\ calls' = [n \in AgentNames |-> [n_calls |-> 0, n_timeouts |-> 0, funcs |-> {}]]
    /\ final' = [n \in AgentNames |-> NoCall]
    /\ done_order' = <<>>
    /\ slept' = [n \in AgentNames |-> <<>>]
    /\ snap' = [k \in DOMAIN snap |-> JobField(k)]
    /\ state0' = agent_state
    /\ metrics0' = metrics
    /\ UNCHANGED <<jobVars, taskVars, metrics>>
    /\ UNCHANGED <<viewVars, engineVars, stepVars, orchVars, factoryVars>>

\* The index of name a in the coordinator's key order.
Index(a) == CHOOSE i \in 1..Len(agents) : agents[i] = a

\* Lines 87-91: count the attempt and call the work function under wait_for.
BeginAttempt(a, i) ==
    /\ metrics' = [metrics EXCEPT ![a].attempts = @ + 1]
    /\ attempt' = [attempt EXCEPT ![a] = i]
    /\ pc' = [pc EXCEPT ![a] = "running"]

\* The wrapper returns (or raises) r: the task is done.
Resolve(a, r) ==
    /\ results' = [results EXCEPT ![a] = r]
    /\ pc' = [pc EXCEPT ![a] = "done"]
    /\ done_order' = Append(done_order, a)

\* _run_agent_with_resilience from its first line to its first await.  The
\* event loop starts the tasks of gather in the order they were created.
run_agent_start(a) ==
    /\ phase = "running"
    /\ pc[a] = "created"
    /\ \A i \in 1..(Index(a) - 1) : pc[agents[i]] # "created"
    /\ IF a \notin DOMAIN agent_state
       THEN \* line 83: KeyError, gather keeps the exception as the result
            /\ Resolve(a, [kind |-> "exception", result |-> NonePayload,
                           error |-> "KeyError"])
            /\ UNCHANGED <<agent_state, metrics, attempt>>
       ELSE /\ agent_state' = [agent_state EXCEPT ![a].status = "active"]
            /\ IF max_retries[a] <= 0
               THEN \* range(0) is empty: the function returns None
                    /\ Resolve(a, [kind |-> "None", result |-> NonePayload,
                                   error |-> NoneStr])
                    /\ UNCHANGED <<metrics, attempt>>
               ELSE /\ BeginAttempt(a, 0)
                    /\ UNCHANGED <<results, done_order>>
    /\ UNCHANGED <<task, constraints, decisions, artifacts, taskVars,
                   phase, outcome, ctx, calls, final, slept, snap, state0, metrics0,
                   budget>>
    /\ UNCHANGED <<viewVars, engineVars, stepVars, orchVars, factoryVars>>

\* The work function, holding the Job Record it was called with (line 91),
\* stores a value in it in place: blackboard.artifacts["k2"] = <its mark>.
work_write(a) ==
    /\ phase = "running"
    /\ pc[a] = "running"
    /\ artifacts' = DictUpdate(artifacts, [x \in {"k2"} |-> ArtValue(a, "write")])
    /\ UNCHANGED <<task, constraints, decisions, agent_state, taskVars, metrics,
                   phase, outcome, roundVars, budget>>
    /\ UNCHANGED <<viewVars, engineVars, stepVars, orchVars, factoryVars>>

\* The work function of a's task was called once more and its call ended as c.
Called(a, c) ==
    calls' = [calls EXCEPT ![a] =
                [n_calls |-> @.n_calls + 1,
                 n_timeouts |-> @.n_timeouts + (IF c.out = "timeout" THEN 1 ELSE 0),
                 funcs |-> @.funcs \cup {agent_func[a]}]]

\* A wrapper that records the agent as completed as soon as its call returned.
work_return_completing(a, p) ==
    /\ phase = "running"
    /\ pc[a] = "running"
    /\ Called(a, Call("ok", p, NoneStr))
    /\ final' = [final EXCEPT ![a] = Call("ok", p, NoneStr)]
    /\ metrics' = [metrics EXCEPT ![a].n_latency = @ + 1]
    /\ Resolve(a, [kind |-> "dict", result |-> p, error |-> NoneStr])
    /\ agent_state' = [agent_state EXCEPT ![a].status = "completed"]
    /\ UNCHANGED <<task, constraints, decisions, artifacts, taskVars, phase, outcome,
                   ctx, attempt, slept, snap, state0, metrics0, budget>>
    /\ UNCHANGED <<viewVars, engineVars, stepVars, orchVars, factoryVars>>

\* Lines 94-104: the work function returned p in time.
work_return(a, p) ==
    /\ phase = "running"
    /\ pc[a] = "running"
    /\ Called(a, Call("ok", p, NoneStr))
    /\ final' = [final EXCEPT ![a] = Call("ok", p, NoneStr)]
    /\ metrics' = [metrics EXCEPT ![a].n_latency = @ + 1]   \* lines 94-101
    /\ Resolve(a, [kind |-> "dict", result |-> p, error |-> NoneStr])
    /\ UNCHANGED <<jobVars, taskVars, phase, outcome, ctx,
                   attempt, slept, snap, state0, metrics0, budget>>
    /\ UNCHANGED <<viewVars, engineVars, stepVars, orchVars, factoryVars>>

\* A wrapper that counts one attempt too many: it sleeps after the last
\* allowed attempt as well and gives up only after the next one.
AttemptFailed_one_more(a, c, st, stateMsg, resMsg) ==
    /\ Called(a, c)
    /\ IF attempt[a] = max_retries[a]
       THEN /\ agent_state' = update_agent_state(agent_state, a, st, NonePayload, stateMsg)
            /\ Resolve(a, [kind |-> "dict", result |-> NonePayload, error |-> resMsg])
            /\ final' = [final EXCEPT ![a] = c]
       ELSE /\ pc' = [pc EXCEPT ![a] = "sleeping"]
            /\ UNCHANGED <<agent_state, results, final, done_order>>

\* Lines 106-126: the attempt failed with status st (TIMEOUT or FAILED);
\* stateMsg goes to the agent_state entry, resMsg into the returned dict.
AttemptFailed(a, c, st, stateMsg, resMsg) ==
    /\ Called(a, c)
    /\ IF attempt[a] = max_retries[a] - 1
       THEN /\ agent_state' = update_agent_state(agent_state, a, st, NonePayload, stateMsg)
            /\ Resolve(a, [kind |-> "dict", result |-> NonePayload, error |-> resMsg])
            /\ final' = [final EXCEPT ![a] = c]
       ELSE /\ pc' = [pc EXCEPT ![a] = "sleeping"]   \* asyncio.sleep(0.5 * 2**attempt)
            /\ UNCHANGED <<agent_state, results, final, done_order>>

\* Lines 106-115: wait_for raised TimeoutError.
work_timeout(a) ==
    /\ phase = "running"
    /\ pc[a] = "running"
    /\ AttemptFailed(a, Call("timeout", NonePayload, NoneStr),
                     "timeout", TimeoutMsg, "timeout")
    /\ UNCHANGED <<task, constraints, decisions, artifacts, taskVars,
                   metrics, phase, outcome, ctx, attempt, slept, snap, state0, metrics0,
                   budget>>
    /\ UNCHANGED <<viewVars, engineVars, stepVars, orchVars, factoryVars>>

\* Lines 117-126: the work function raised Exception(msg).
work_raise(a, msg) ==
    /\ phase = "running"
    /\ pc[a] = "running"
    /\ AttemptFailed(a, Call("raise", NonePayload, msg), "failed", msg, msg)
    /\ UNCHANGED <<task, constraints, decisions, artifacts, taskVars,
                   metrics, phase, outcome, ctx, attempt, slept, snap, state0, metrics0,
                   budget>>
    /\ UNCHANGED <<viewVars, engineVars, stepVars, orchVars, factoryVars>>

\* A backoff of 1.0 * 2 ** attempt seconds.
backoff_from_one_second(i) == 2 * 2 ^ i

\* The delay of asyncio.sleep(0.5 * (2 ** attempt)), lines 115 and 126, in
\* half seconds.
backoff(i) == 2 ^ i

\* The backoff sleep is over: next iteration of the loop, lines 85-91.
backoff_done(a) ==
    /\ phase = "running"
    /\ pc[a] = "sleeping"
    /\ slept' = [slept EXCEPT ![a] = Append(@, backoff(attempt[a]))]
    /\ BeginAttempt(a, attempt[a] + 1)
    /\ UNCHANGED <<jobVars, taskVars, phase, outcome, ctx,
                   results, calls, final, done_order, snap, state0, metrics0,
                   budget>>
    /\ UNCHANGED <<viewVars, engineVars, stepVars, orchVars, factoryVars>>

\* A merge that gives up at the first agent that failed: it records that
\* agent as failed and leaves the agents after it unmerged.
RECURSIVE merge_results_abort(_, _, _, _, _)
merge_results_abort(names, res, i, st, arts) ==
    IF i > Len(names)
    THEN [agent_state |-> st, artifacts |-> arts, raised |-> FALSE]
    ELSE LET a == names[i]
             r == res[a]
         IN  IF r.kind = "exception" \/ (r.kind = "dict" /\ TruthyStr(r.error))
             THEN [agent_state |-> update_agent_state(st, a, "failed", NonePayload, r.error),
                   artifacts |-> arts, raised |-> FALSE]
             ELSE IF r.kind = "None"
             THEN [agent_state |-> st, artifacts |-> arts, raised |-> TRUE]
             ELSE merge_results_abort(names, res, i + 1,
                      update_agent_state(st, a, "completed", r.result, NoneStr),
                      IF TruthyPayload(r.result)
                      THEN DictUpdate(arts, r.result.arts)
                      ELSE arts)

\* _merge_results(agent_names, results) from position i on, on the mapping st
\* and the artifacts store arts.  raised: result.get on None (AttributeError)
\* left the loop.
RECURSIVE merge_results(_, _, _, _, _)
merge_results(names, res, i, st, arts) ==
    IF i > Len(names)
    THEN [agent_state |-> st, artifacts |-> arts, raised |-> FALSE]
    ELSE LET a == names[i]
             r == res[a]
         IN  IF r.kind = "exception"
             THEN merge_results(names, res, i + 1,
                      update_agent_state(st, a, "failed", NonePayload, r.error), arts)
             ELSE IF r.kind = "None"
             THEN [agent_state |-> st, artifacts |-> arts, raised |-> TRUE]
             ELSE IF TruthyStr(r.error)
             THEN merge_results(names, res, i + 1,
                      update_agent_state(st, a, "failed", NonePayload, r.error), arts)
             ELSE merge_results(names, res, i + 1,
                      update_agent_state(st, a, "completed", r.result, NoneStr),
                      IF TruthyPayload(r.result)
                      THEN DictUpdate(arts, r.result.arts)
                      ELSE arts)

\* A coordinator that merges as soon as one task has resolved.
merge_after_first ==
    /\ phase = "running"
    /\ \E a \in Registered : pc[a] = "done"
    /\ LET m == merge_results(agents, results, 1, agent_state, artifacts)
       IN  /\ agent_state' = m.agent_state
           /\ artifacts' = m.artifacts
           /\ outcome' = IF m.raised THEN "raised" ELSE "returned"
    /\ phase' = "idle"
    /\ UNCHANGED <<task, constraints, decisions, taskVars, metrics,
                   roundVars, budget>>
    /\ UNCHANGED <<viewVars, engineVars, stepVars, orchVars, factoryVars>>

\* A merge that also notes in the record's decisions that it ran.
gather_and_merge_logging ==
    /\ phase = "running"
    /\ \A a \in Registered : pc[a] = "done"
    /\ LET m == merge_results(agents, results, 1, agent_state, artifacts)
       IN  /\ agent_state' = m.agent_state
           /\ artifacts' = m.artifacts
           /\ outcome' = IF m.raised THEN "raised" ELSE "returned"
    /\ decisions' = Append(decisions, "merged")
    /\ phase' = "idle"
    /\ UNCHANGED <<task, constraints, taskVars, metrics, roundVars, budget>>
    /\ UNCHANGED <<viewVars, engineVars, stepVars, orchVars, factoryVars>>

\* execute_parallel, lines 66-72: gather has every result; merge and return.
gather_and_merge ==
    /\ phase = "running"
    /\ \A a \in Registered : pc[a] = "done"
    /\ LET m == merge_results(agents, results, 1, agent_state, artifacts)
       IN  /\ agent_state' = m.agent_state
           /\ artifacts' = m.artifacts
           /\ outcome' = IF m.raised THEN "raised" ELSE "returned"
    /\ phase' = "idle"
    /\ UNCHANGED <<task, constraints, decisions, taskVars, metrics,
                   roundVars, budget>>
    /\ UNCHANGED <<viewVars, engineVars, stepVars, orchVars, factoryVars>>

Next ==
    \/ NewCoordinator
    \/ \E n \in AgentNames, r \in 0..MaxRetries : register_agent(n, r, "f1")
    \/ execute_parallel
    \/ \E a \in Registered : run_agent_start(a)
    \/ \E a \in Registered : work_write(a)
    \/ \E a \in Registered : \E p \in Payloads(a) : work_return(a, p)
    \/ \E a \in Registered : work_timeout(a)
    \/ \E a \in Registered, msg \in ExcMessages : work_raise(a, msg)
    \/ \E a \in Registered : backoff_done(a)
    \/ gather_and_merge

Spec == Init /\ [][Next]_vars

\* The coordinator with callers that register any of the work functions, each
\* with one or two attempts, and work functions that return or time out.
NextRegistration ==
    \/ \E n \in AgentNames, r \in 1..2, f \in Funcs : register_agent(n, r, f)
    \/ execute_parallel
    \/ \E a \in Registered : run_agent_start(a)
    \/ \E a \in Registered : work_return(a, MapPayload(NoneStr, EmptyMap))
    \/ \E a \in Registered : work_timeout(a)
    \/ \E a \in Registered : backoff_done(a)
    \/ gather_and_merge

SpecRegistration == Init /\ [][NextRegistration]_vars

\* ------------------------------------------- the Job Record on its own
\* Roles a caller asks a view for: the three known ones and two others.
AskedRoles == Roles \cup {"reviewer", ""}

\* Timestamps a caller gives an AgentState, in seconds: None or 0..MaxTimestamp.
MaxTimestamp == 2
Timestamps == {NoneNum} \cup 0..MaxTimestamp
\* The agent_state arguments of a caller who fills in the timestamps.
GivenTimedAgentStates ==
    {EmptyMap} \cup
    { [n \in {"drafter"} |->
          [NewAgentState EXCEPT !.timestamp_start = t0, !.timestamp_end = t1]] :
      t0 \in Timestamps, t1 \in Timestamps }
\* What a caller passes update_agent_state.
UpdatedNames == {"collector", "drafter", "reviewer"}
UpdateStatuses == {"completed", "failed"}
UpdateResults == {NonePayload, MapPayload("boom", EmptyMap)}
UpdateErrors == {NoneStr, "boom"}

\* JobContext(job_id, task, constraints, decisions, artifacts, agent_state) as
\* callers construct it.
InitJob ==
    /\ task \in {"task0", ""}
    /\ constraints \in {<<>>, <<"c0">>}
    /\ decisions \in {<<>>, <<"d0">>}
    /\ artifacts \in {EmptyMap, [k \in {"k1"} |-> ArtValue("caller", "init")]}
    /\ agent_state \in {post_init(g) : g \in GivenTimedAgentStates}
    /\ CoordFresh
    /\ NoView
    /\ NoPlaybook
    /\ NoStep
    /\ NoTasks
    /\ NoBaseAgents

\* A caller asks for the view of role: the dict comprehension of line 66,
\* which reads each key of the filter off the record.
call_get_agent_context(role) ==
    /\ role_asked' = role
    /\ view' = [k \in get_agent_context(role) |-> JobField(k)]
    /\ name_asked' = NoneStr
    /\ UNCHANGED <<jobVars, coordVars, engineVars, stepVars, orchVars, factoryVars>>

\* A caller calls update_agent_state(name, status, result, error).
call_update_agent_state(name, status, result, error) ==
    /\ name_asked' = name
    /\ agent_state' = update_agent_state(agent_state, name, status, result, error)
    /\ UNCHANGED <<task, constraints, decisions, artifacts, coordVars, engineVars,
                   stepVars, orchVars, factoryVars, role_asked, view>>

NextJob ==
    \/ \E role \in AskedRoles : call_get_agent_context(role)
    \/ \E name \in UpdatedNames, status \in UpdateStatuses,
          result \in UpdateResults, error \in UpdateErrors :
            call_update_agent_state(name, status, result, error)

SpecJob == InitJob /\ [][NextJob]_vars

\* -------------------------------------------------------- workflow engine
\* The ids of a playbook's steps, in the order the playbook lists them.
StepIds == <<"A", "B", "C">>
\* A dependency id that names no step of the playbook.
NoStepId == "X"
DepIds == {StepIds[i] : i \in 1..Len(StepIds)} \cup {NoStepId}
\* Longest 'dependencies' list of a step: every other step.
MaxDeps == Len(StepIds) - 1
\* The 'dependencies' lists: at most MaxDeps ids, none twice.
DepLists ==
    {d \in UNION {[1..n -> DepIds] : n \in 0..MaxDeps} :
        \A i, j \in DOMAIN d : d[i] = d[j] => i = j}
\* The 'steps' lists: the first n ids, each with a dependency list.
StepLists ==
    UNION {{[i \in 1..n |-> [id |-> StepIds[i], dependencies |-> ds[i]]] :
              ds \in [1..n -> DepLists]} : n \in 0..Len(StepIds)}
\* The playbook documents: with or without an 'id' (one without is followed
\* with at most one step).
Playbooks ==
    {pb \in [id : {"pb", NoneStr}, errorHandling : {"abort", "continue"},
             steps : StepLists] :
        pb.id = NoneStr => Len(pb.steps) <= 1}

\* The keys of {step['id']: ... for step in steps}, in dict order, from i on.
RECURSIVE StepKeys(_, _, _)
StepKeys(steps, i, seen) ==
    IF i > Len(steps) THEN <<>>
    ELSE IF steps[i].id \in seen THEN StepKeys(steps, i + 1, seen)
    ELSE <<steps[i].id>> \o StepKeys(steps, i + 1, seen \cup {steps[i].id})

\* DependencyGraph._build_adjacency: id -> dependencies, the last step of an
\* id winning.
build_adjacency(steps) ==
    [id \in {steps[i].id : i \in DOMAIN steps} |->
        LET last == CHOOSE i \in DOMAIN steps :
                        /\ steps[i].id = id
                        /\ \A j \in DOMAIN steps : steps[j].id = id => j <= i
        IN  steps[last].dependencies]

\* visit(step_id) of topological_sort on the running state
\* st = [visited, result, raised]; raised: self.steps[step_id] was a KeyError.
RECURSIVE visit(_, _, _)
RECURSIVE visit_each(_, _, _, _)
visit(adj, step_id, st) ==
    IF st.raised \/ step_id \in st.visited
    THEN st
    ELSE LET deps == IF step_id \in DOMAIN adj THEN adj[step_id] ELSE <<>>
             after == visit_each(adj, deps, 1,
                                 [st EXCEPT !.visited = @ \cup {step_id}])
         IN  IF after.raised THEN after
             ELSE IF step_id \in DOMAIN adj
             THEN [after EXCEPT !.result = Append(@, step_id)]
             ELSE [after EXCEPT !.raised = TRUE]

\* for x in ids: visit(x), from position i on.
visit_each(adj, ids, i, st) ==
    IF i > Len(ids) THEN st
    ELSE visit_each(adj, ids, i + 1, visit(adj, ids[i], st))

\* A sort that passes over a dependency id that names no step.
sort_skipping_unknown(steps) ==
    LET adj == build_adjacency(steps)
    IN  visit_each([id \in DOMAIN adj |->
                       SelectSeq(adj[id], LAMBDA d : d \in DOMAIN adj)],
                   StepKeys(steps, 1, {}), 1,
                   [visited |-> {}, result |-> <<>>, raised |-> FALSE])

\* An order that ignores the dependencies: the steps as the playbook lists them.
sort_in_list_order(steps) ==
    [visited |-> {steps[i].id : i \in DOMAIN steps},
     result |-> StepKeys(steps, 1, {}), raised |-> FALSE]

\* A sort that keeps no visited set: it lists each step after its direct
\* dependencies, whether or not they were listed before.
RECURSIVE dependencies_then_step(_, _, _)
dependencies_then_step(adj, keys, i) ==
    IF i > Len(keys) THEN <<>>
    ELSE SelectSeq(adj[keys[i]], LAMBDA d : d \in DOMAIN adj) \o <<keys[i]>>
            \o dependencies_then_step(adj, keys, i + 1)
sort_without_visited(steps) ==
    [visited |-> {},
     result |-> dependencies_then_step(build_adjacency(steps), StepKeys(steps, 1, {}), 1),
     raised |-> \E i \in DOMAIN steps : \E j \in DOMAIN steps[i].dependencies :
                    steps[i].dependencies[j] \notin DOMAIN build_adjacency(steps)]

\* DependencyGraph(steps).topological_sort(): the ids of the steps returned,
\* or raised.
topological_sort(steps) ==
    visit_each(build_adjacency(steps), StepKeys(steps, 1, {}), 1,
               [visited |-> {}, result |-> <<>>, raised |-> FALSE])

\* str(e) of the exceptions that end a run: the KeyError of a dependency id
\* that names no step, and line 102's f"Step failed: {step_result.error}".
KeyErrorMsg == "'X'"
\* str(e) of what a connector raises, and of the ValueErrors of lines 139, 168
\* and 217.
StepError == "boom"
UnknownActionMsg == "Unknown action: bogus"
NoConnectorMsg == "Connector not found: nope"
AbortMsg(error) ==
    CASE error = StepError -> "Step failed: boom"
      [] error = UnknownActionMsg -> "Step failed: Unknown action: bogus"
      [] error = NoConnectorMsg -> "Step failed: Connector not found: nope"

\* connector_registry: the names a WorkflowEngine is constructed with.
ConnectorRegistry == {"db"}
\* What a step says besides its id and dependencies: its action and connector.
\* They are drawn when the step is executed.
StepBodies ==
    [action : {"query", "evaluate", "template", "communicate", "bogus"},
     connector : {"db", "nope"}]

\* An _execute_step that lets the ValueError of an unknown action or of a
\* missing connector through.
execute_step_unguarded(body, raises) ==
    IF body.action \in {"query", "communicate"}
    THEN IF body.connector \notin ConnectorRegistry
         THEN [status |-> "raised", error |-> NoConnectorMsg]
         ELSE IF raises THEN [status |-> "failed", error |-> StepError]
         ELSE [status |-> "success", error |-> NoneStr]
    ELSE IF body.action \in {"evaluate", "template"}
    THEN [status |-> "success", error |-> NoneStr]
    ELSE [status |-> "raised", error |-> UnknownActionMsg]

\* _execute_step, lines 116-157: status and error of the StepResult for a
\* step of this body, whose connector call raises or returns.
execute_step_status(body, raises) ==
    IF body.action \in {"query", "communicate"}
    THEN IF body.connector \notin ConnectorRegistry
         THEN [status |-> "failed", error |-> NoConnectorMsg]
         ELSE IF raises THEN [status |-> "failed", error |-> StepError]
         ELSE [status |-> "success", error |-> NoneStr]
    ELSE IF body.action \in {"evaluate", "template"}
    THEN [status |-> "success", error |-> NoneStr]
    ELSE [status |-> "failed", error |-> UnknownActionMsg]

\* ExecutionContext.get_variable: dict.get, None for a key that is absent.
get_variable(vs, key) == IF key \in DOMAIN vs THEN vs[key] ELSE NoneNum

\* An engine that stores that a step succeeded under the step's id, for
\* later steps to read.
step_variables_storing(vs, step_id, r) ==
    IF r.status = "success" THEN DictUpdate(vs, [k \in {step_id} |-> 1]) ELSE vs

\* The context's variables after _execute_step ran a step with result r: no
\* line of the engine calls set_variable or assigns into the map.
step_variables(vs, step_id, r) == vs

\* execution_result as lines 77-84 create it ('error' is set by line 108 only).
NewReport(pb) ==
    [playbook_id |-> pb.id, status |-> "running", steps |-> <<>>,
     completed_at |-> NoneStr, error |-> NoneStr]

\* A report entry that leaves the duration out.
StepResult_no_duration(step_id, r) ==
    [step_id |-> step_id, status |-> r.status, error |-> r.error,
     duration_ms |-> NoneStr]

\* StepResult as lines 92-98 put it into the report; r is the status and
\* error _execute_step returned, duration_ms the int of lines 146 and 156.
StepResult(step_id, r) ==
    [step_id |-> step_id, status |-> r.status, error |-> r.error,
     duration_ms |-> "int"]

\* An engine that never gives up on a failed step.
NeverAborts(pb, sr) == FALSE

\* Lines 100-101: the step failed and the playbook says abort.
Aborts(pb, sr) == sr.status = "failed" /\ pb.errorHandling = "abort"

\* Lines 106-108: the except clause.
except_(report, msg) == [report EXCEPT !.status = "failed", !.error = msg]

\* A completion time recorded only when the run succeeded.
finally_if_success(report) ==
    IF report.status = "success"
    THEN [report EXCEPT !.completed_at = "utcnow"]
    ELSE report

\* Lines 111-112: the finally clause.
finally_(report) == [report EXCEPT !.completed_at = "utcnow"]

\* execute_playbook(playbook, execution_id) is called on a new engine.
InitEngine ==
    /\ task = "task0"
    /\ constraints = <<"c0">>
    /\ decisions = <<>>
    /\ artifacts = EmptyMap
    /\ agent_state = post_init(EmptyMap)
    /\ CoordFresh
    /\ NoView
    /\ playbook \in Playbooks
    /\ wf_pc = "called"
    /\ execution_result = NoneStr
    /\ order = <<>>
    /\ executed = <<>>
    /\ raised_by = NoneStr
    /\ NoStep
    /\ NoTasks
    /\ NoBaseAgents

\* execute_playbook from its first line to its first await: lines 70-90, and
\* lines 104-114 when the order is empty or the sort raised.
execute_playbook ==
    /\ wf_pc = "called"
    /\ IF playbook.id = NoneStr
       THEN \* line 72: playbook['id'] is a KeyError, outside the try
            /\ wf_pc' = "raised"
            /\ raised_by' = "execute_playbook"
            /\ UNCHANGED <<execution_result, order, variables>>
       ELSE LET sorted == topological_sort(playbook.steps)
            IN  /\ variables' = EmptyMap   \* line 73: variables={}
                /\ IF sorted.raised
                   THEN /\ execution_result' =
                             finally_(except_(NewReport(playbook), KeyErrorMsg))
                        /\ raised_by' = "topological_sort"
                        /\ wf_pc' = "returned"
                        /\ order' = <<>>
                   ELSE /\ order' = sorted.result
                        /\ raised_by' = NoneStr
                        /\ IF sorted.result = <<>>
                           THEN /\ execution_result' =
                                     finally_([NewReport(playbook) EXCEPT !.status = "success"])
                                /\ wf_pc' = "returned"
                           ELSE /\ execution_result' = NewReport(playbook)
                                /\ wf_pc' = "stepping"
    /\ UNCHANGED <<jobVars, coordVars, viewVars, config, step_output, playbook, executed,
                   orchVars, factoryVars>>

\* One iteration of the loop, lines 90-102: _execute_step ran the next step
\* of the order, a step of the given body whose connector call raises or
\* returns; then the abort (lines 102-112), the next iteration, or the end of
\* the loop (lines 104-114).  An exception out of _execute_step (there is none
\* in the code) would be caught by line 106.
execute_step(body, raises) ==
    /\ wf_pc = "stepping"
    /\ LET i == Len(execution_result.steps) + 1
           r == execute_step_status(body, raises)
           sr == StepResult(order[i], r)
           report == [execution_result EXCEPT !.steps = Append(@, sr)]
       IN  /\ executed' = Append(executed, order[i])
           /\ variables' = step_variables(variables, order[i], r)
           /\ IF r.status = "raised"
              THEN /\ execution_result' = finally_(except_(execution_result, r.error))
                   /\ raised_by' = "_execute_step"
                   /\ wf_pc' = "returned"
              ELSE IF Aborts(playbook, sr)
              THEN /\ execution_result' = finally_(except_(report, AbortMsg(sr.error)))
                   /\ raised_by' = "abort"
                   /\ wf_pc' = "returned"
              ELSE IF i = Len(order)
              THEN /\ execution_result' = finally_([report EXCEPT !.status = "success"])
                   /\ wf_pc' = "returned"
                   /\ UNCHANGED raised_by
              ELSE /\ execution_result' = report
                   /\ UNCHANGED <<wf_pc, raised_by>>
    /\ UNCHANGED <<jobVars, coordVars, viewVars, config, step_output, playbook, order,
                   orchVars, factoryVars>>

NextEngine ==
    \/ execute_playbook
    \/ \E body \in StepBodies, raises \in BOOLEAN : execute_step(body, raises)

SpecEngine == InitEngine /\ [][NextEngine]_vars

\* ------------------------------------------------------ the evaluate step
\* Criteria an evaluate step's config lists, at most.
MaxCriteria == 2
\* Metric names, and the values a context holds for them (absent = no key).
Metrics == {"m1", "m2"}
VariableMaps ==
    { [m \in D |-> IF m = "m1" THEN v ELSE 0] : D \in SUBSET Metrics, v \in 0..2 }
\* Threshold strings, character by character: "> 1" and "< 1" as the
\* documentation writes them (float() skips the blank), and others that
\* callers may write.
Thresholds ==
    { <<">", "1">>, <<"<", "1">>, <<"1">>, <<">", "=", "1">>, <<"<", ">", "1">>,
      <<">", "<", "1">>, <<">">>, <<"=", "1">>, <<"<", "1", "1">> }
Criteria == [metric : Metrics, threshold : Thresholds]
RECURSIVE ListsUpTo(_, _)
ListsUpTo(S, n) ==
    IF n = 0 THEN {<<>>}
    ELSE LET shorter == ListsUpTo(S, n - 1)
         IN  shorter \cup {Append(l, x) : l \in {t \in shorter : Len(t) = n - 1}, x \in S}

\* ch in s
Contains(s, ch) == \E i \in DOMAIN s : s[i] = ch
\* s.split(ch)[-1]: what follows the last ch
AfterLast(s, ch) ==
    LET last == CHOOSE i \in DOMAIN s :
                    s[i] = ch /\ \A j \in DOMAIN s : s[j] = ch => j <= i
    IN  SubSeq(s, last + 1, Len(s))
\* float(s) of a string of decimal digits; float raises ValueError on the
\* empty string and on a string with any of the other characters used here.
Digit == ("0" :> 0) @@ ("1" :> 1) @@ ("2" :> 2)
IsFloat(s) == s # <<>> /\ \A i \in DOMAIN s : s[i] \in DOMAIN Digit
RECURSIVE float(_)
float(s) ==
    IF Len(s) = 1 THEN Digit[s[1]]
    ELSE 10 * float(SubSeq(s, 1, Len(s) - 1)) + Digit[s[Len(s)]]

\* What a call returns: a bool, or it raised.
Returns(b) == [raised |-> FALSE, value |-> b]
Raises == [raised |-> TRUE, value |-> FALSE]

\* A criterion that also holds when the value equals the target.
evaluate_criterion_or_equal(metric, threshold, vs) ==
    IF metric \notin DOMAIN vs THEN Returns(FALSE)
    ELSE IF Contains(threshold, ">")
    THEN LET t == AfterLast(threshold, ">")
         IN  IF IsFloat(t) THEN Returns(vs[metric] >= float(t)) ELSE Raises
    ELSE IF Contains(threshold, "<")
    THEN LET t == AfterLast(threshold, "<")
         IN  IF IsFloat(t) THEN Returns(vs[metric] <= float(t)) ELSE Raises
    ELSE Returns(FALSE)

\* _evaluate_criterion, lines 244-263, on the variables vs.
evaluate_criterion(metric, threshold, vs) ==
    IF metric \notin DOMAIN vs THEN Returns(FALSE)
    ELSE IF Contains(threshold, ">")
    THEN LET t == AfterLast(threshold, ">")
         IN  IF IsFloat(t) THEN Returns(vs[metric] > float(t)) ELSE Raises
    ELSE IF Contains(threshold, "<")
    THEN LET t == AfterLast(threshold, "<")
         IN  IF IsFloat(t) THEN Returns(vs[metric] < float(t)) ELSE Raises
    ELSE Returns(FALSE)

\* The loop of lines 185-188: `passed and ...` does not evaluate a criterion
\* once passed is False.
RECURSIVE evaluate_loop(_, _, _)
evaluate_loop(criteria, passed, vs) ==
    IF criteria = <<>> THEN Returns(passed)
    ELSE IF ~passed THEN evaluate_loop(Tail(criteria), FALSE, vs)
    ELSE LET r == evaluate_criterion(Head(criteria).metric,
                                     Head(criteria).threshold, vs)
         IN  IF r.raised THEN Raises ELSE evaluate_loop(Tail(criteria), r.value, vs)

\* _execute_evaluate_step, lines 176-190; cfg is config.get('criteria', []).
execute_evaluate_step(cfg, vs) == evaluate_loop(cfg, TRUE, vs)

\* _execute_step on an evaluate step, lines 131-157: the StepResult's status
\* and, when it is success, output['passed'].
execute_step_evaluate(cfg, vs) ==
    LET r == execute_evaluate_step(cfg, vs)
    IN  IF r.raised THEN [status |-> "failed", passed |-> FALSE]
        ELSE [status |-> "success", passed |-> r.value]

\* An evaluate step with its config, and a context with its variables.
InitEvaluate ==
    /\ task = "task0"
    /\ constraints = <<"c0">>
    /\ decisions = <<>>
    /\ artifacts = EmptyMap
    /\ agent_state = post_init(EmptyMap)
    /\ CoordFresh
    /\ NoView
    /\ NoPlaybook
    /\ variables \in VariableMaps
    /\ config \in ListsUpTo(Criteria, MaxCriteria)
    /\ step_output = [status |-> "pending", passed |-> FALSE]
    /\ NoTasks
    /\ NoBaseAgents

\* _execute_step(step, context) for that step.
call_execute_step ==
    /\ step_output.status = "pending"
    /\ step_output' = execute_step_evaluate(config, variables)
    /\ UNCHANGED <<jobVars, coordVars, viewVars, engineVars, variables, config,
                   orchVars, factoryVars>>

NextEvaluate == call_execute_step

SpecEvaluate == InitEvaluate /\ [][NextEvaluate]_vars

\* ------------------------------------------- the autonomous orchestrator
\* autonomous-system/02-AI-AGENT-ORCHESTRATOR.py.  process_tasks takes one
\* task at a time from the queue and awaits its agent's execute_task; the
\* awaits inside are the HTTP post and the backoff sleep of handle_error.
\* The HTTP endpoint is the environment: each post succeeds (200, 201) or
\* fails (another status, or an exception of the session).

\* Tasks a caller makes and enqueues.
MaxTasks == 2

\* AgentTask.max_retries, as __init__ sets it.
TaskMaxRetries == 3

\* agent_type of the three agents initialize() creates.
AgentTypes == {"webhook", "jira", "monitor"}
\* agent_type a caller gives a task: one of them, or one no agent has.
TaskTypes == AgentTypes \cup {"other"}
\* What a caller stores in task.result before enqueueing: nothing, or a
\* request {'operation': 'create_issue', 'data': ...}.
Requests == {NoneStr, "create_issue"}

\* AgentTask(task_id, agent_type).
AgentTask(agent_type) ==
    [agent_type |-> agent_type, status |-> "pending", result |-> NoneStr,
     retry_count |-> 0]

\* handle_error's test with <= for <: one retry more.
retry_again_inclusive(retry_count, limit) == retry_count <= limit

\* handle_error's test: retry while retry_count < max_retries.
retry_again(retry_count, limit) == retry_count < limit

\* The delay handle_error sleeps before a retry: 2 ** task.retry_count.
backoff_delay(retry_count) == 2 ^ retry_count

\* Whether execute_task of the agent of that type reaches an HTTP post:
\* the webhook agent always, the Jira agent for operation create_issue,
\* the monitoring agent never.
posts(t) ==
    \/ t.agent_type = "webhook"
    \/ t.agent_type = "jira" /\ t.result = "create_issue"

\* What execute_task returns when it makes no post: the monitoring agent a
\* success with its metrics, the Jira agent None (it falls off its end).
returns_without_post(t) ==
    IF t.agent_type = "monitor" THEN "success" ELSE NoneStr

\* process_tasks after execute_task returned r for task i: task.result = r,
\* completed_tasks.append(task), break; the loop goes back to queue.get.
task_returned(i, status, retry_count, r) ==
    /\ tasks' = [tasks EXCEPT ![i] = [@ EXCEPT !.status = status,
                                               !.retry_count = retry_count,
                                               !.result = r]]
    /\ completed_tasks' = Append(completed_tasks, i)
    /\ loop_pc' = "get"
    /\ current' = 0

\* The caller makes a task, stores a request in it or not, and enqueues it.
enqueue_task(agent_type, request) ==
    /\ Len(tasks) < MaxTasks
    /\ tasks' = Append(tasks, [AgentTask(agent_type) EXCEPT !.result = request])
    /\ task_queue' = Append(task_queue, Len(tasks) + 1)
    /\ tries' = Append(tries, 0)
    /\ backoffs' = Append(backoffs, <<>>)
    /\ UNCHANGED <<completed_tasks, loop_pc, current>>
    /\ UNCHANGED <<jobVars, coordVars, viewVars, engineVars, stepVars, factoryVars>>

\* process_tasks, from queue.get to the first await of execute_task or, if
\* there is none, to the end of the iteration.
process_next_task ==
    /\ loop_pc = "get"
    /\ task_queue # <<>>
    /\ task_queue' = Tail(task_queue)
    /\ LET i == Head(task_queue)
           t == tasks[i]
       IN  IF t.agent_type \notin AgentTypes
           THEN UNCHANGED <<tasks, completed_tasks, loop_pc, current, tries>>
           ELSE /\ tries' = [tries EXCEPT ![i] = @ + 1]
                /\ IF posts(t)
                   THEN /\ tasks' = [tasks EXCEPT ![i].status = "in_progress"]
                        /\ loop_pc' = "post"
                        /\ current' = i
                        /\ UNCHANGED completed_tasks
                   ELSE task_returned(i,
                            IF t.agent_type = "monitor" THEN "completed"
                            ELSE "in_progress",
                            t.retry_count, returns_without_post(t))
    /\ UNCHANGED backoffs
    /\ UNCHANGED <<jobVars, coordVars, viewVars, engineVars, stepVars, factoryVars>>

\* The post answers 200 or 201: execute_task returns {'status': 'success'}.
post_succeeds ==
    /\ loop_pc = "post"
    /\ task_returned(current, "completed", tasks[current].retry_count, "success")
    /\ UNCHANGED <<task_queue, tries, backoffs>>
    /\ UNCHANGED <<jobVars, coordVars, viewVars, engineVars, stepVars, factoryVars>>

\* The post fails: execute_task's except branch calls handle_error, which
\* counts the retry and either sleeps or gives the task up and returns
\* {'status': 'failed', 'error': ...}.
post_fails ==
    /\ loop_pc = "post"
    /\ LET t == tasks[current]
           retry_count == t.retry_count + 1
       IN  IF retry_again(retry_count, TaskMaxRetries)
           THEN /\ tasks' = [tasks EXCEPT ![current].retry_count = retry_count]
                /\ backoffs' = [backoffs EXCEPT
                                  ![current] = Append(@, backoff_delay(retry_count))]
                /\ loop_pc' = "sleep"
                /\ UNCHANGED <<completed_tasks, current>>
           ELSE /\ task_returned(current, "failed", retry_count, "failed")
                /\ UNCHANGED backoffs
    /\ UNCHANGED <<task_queue, tries>>
    /\ UNCHANGED <<jobVars, coordVars, viewVars, engineVars, stepVars, factoryVars>>

\* The backoff sleep ends: handle_error calls execute_task again, which runs
\* to its post (task.result is still the caller's request).
retry_task ==
    /\ loop_pc = "sleep"
    /\ tasks' = [tasks EXCEPT ![current].status = "in_progress"]
    /\ tries' = [tries EXCEPT ![current] = @ + 1]
    /\ loop_pc' = "post"
    /\ UNCHANGED <<task_queue, completed_tasks, current, backoffs>>
    /\ UNCHANGED <<jobVars, coordVars, viewVars, engineVars, stepVars, factoryVars>>

\* An orchestrator after initialize(), its queue empty.
InitOrchestrator ==
    /\ task = "task0"
    /\ constraints = <<"c0">>
    /\ decisions = <<>>
    /\ artifacts = EmptyMap
    /\ agent_state = post_init(EmptyMap)
    /\ CoordFresh
    /\ NoView
    /\ NoPlaybook
    /\ NoStep
    /\ NoTasks
    /\ NoBaseAgents

NextOrchestrator ==
    \/ \E agent_type \in TaskTypes, request \in Requests :
          enqueue_task(agent_type, request)
    \/ process_next_task
    \/ post_succeeds
    \/ post_fails
    \/ retry_task

SpecOrchestrator == InitOrchestrator /\ [][NextOrchestrator]_vars

\* ------------------------------------------------------- the agent factory
\* coordinator/agent_factory.py and the metrics sink of coordinator/metrics.py.
\* run_with_timeout has one await, execute() under asyncio.wait_for; calls on
\* different agents interleave there.  execute() is the environment: it
\* returns a result, raises an Exception, runs into the timeout, or the await
\* is cancelled (the caller's own wait_for expires, or execute() awaits a
\* cancelled future): asyncio.CancelledError is a BaseException.

\* Agents a caller creates.
MaxBaseAgents == 2

\* agent_id values a caller gives; two agents may be given the same one.
AgentIds == {"a1", "a2"}
\* What execute() returns.
WorkResults == {NoneStr, "data"}
\* str(e) of what execute() raises.
RaisedMessages == {"boom"}
\* f"Timeout after {self.timeout}s" for the default timeout.
TimeoutMessage == "Timeout after 30.0s"

\* BaseAgent.__init__.
BaseAgent(agent_id) ==
    [agent_id |-> agent_id, state |-> "pending", result |-> NoneStr,
     error |-> NoneStr]

\* AgentMetrics(agent_id=agent_id).
AgentMetrics(agent_id) ==
    [agent_id |-> agent_id, status |-> "pending", error_count |-> 0,
     timeout_count |-> 0, success |-> FALSE, result |-> NoneStr,
     error_message |-> NoneStr]

\* MetricsCollector.start_agent: a new AgentMetrics under agent_id.
start_agent(am, agent_id) ==
    [k \in DOMAIN am \cup {agent_id} |->
        IF k = agent_id THEN AgentMetrics(agent_id) ELSE am[k]]

\* MetricsCollector.record_error.
record_error(am, agent_id, is_timeout) ==
    IF agent_id \in DOMAIN am
    THEN [am EXCEPT ![agent_id] =
            [@ EXCEPT !.error_count = @ + 1,
                      !.timeout_count = IF is_timeout THEN @ + 1 ELSE @]]
    ELSE am

\* AgentMetrics.mark_complete.
mark_complete(m, success, error_msg) ==
    [m EXCEPT !.success = success,
              !.status = IF success THEN "success" ELSE "failed",
              !.error_message = error_msg]

\* MetricsCollector.end_agent.
end_agent(am, agent_id, success, error_msg, result) ==
    IF agent_id \in DOMAIN am
    THEN [am EXCEPT ![agent_id] =
            [mark_complete(@, success, error_msg) EXCEPT !.result = result]]
    ELSE am

\* A call the sink received, and the agent object that made it.
SinkCall(call, i) == [call |-> call, agent_id |-> base_agents[i].agent_id, by |-> i]

\* What a run_with_timeout call returned: nothing yet, execute()'s result,
\* or {"error": ..., "agent_id": ...}.
NotReturned == [kind |-> "none"]
WorkResult(r) == [kind |-> "result", result |-> r]
ErrorPayload(error, agent_id) == [kind |-> "error", error |-> error, agent_id |-> agent_id]

\* The except branches of run_with_timeout: the state, the error, the two
\* calls to the sink, the payload.
run_failed(i, state, error, is_timeout) ==
    LET a == base_agents[i]
    IN  /\ base_agents' = [base_agents EXCEPT ![i] = [@ EXCEPT !.state = state,
                                                               !.error = error]]
        /\ agent_metrics' = end_agent(record_error(agent_metrics, a.agent_id, is_timeout),
                                      a.agent_id, FALSE, error, NoneStr)
        /\ sink_log' = sink_log \o <<SinkCall("record_error", i), SinkCall("end_agent", i)>>
        /\ run_result' = [run_result EXCEPT ![i] = ErrorPayload(error, a.agent_id)]
        /\ run_pc' = [run_pc EXCEPT ![i] = "returned"]

\* AgentFactory.create_agent for a registered type.
create_agent(agent_id) ==
    /\ Len(base_agents) < MaxBaseAgents
    /\ base_agents' = Append(base_agents, BaseAgent(agent_id))
    /\ run_pc' = Append(run_pc, "idle")
    /\ run_result' = Append(run_result, NotReturned)
    /\ UNCHANGED <<agent_metrics, sink_log>>
    /\ UNCHANGED <<jobVars, coordVars, viewVars, engineVars, stepVars, orchVars>>

\* run_with_timeout up to its await.
call_run_with_timeout(i) ==
    /\ run_pc[i] = "idle"
    /\ base_agents' = [base_agents EXCEPT ![i].state = "running"]
    /\ agent_metrics' = start_agent(agent_metrics, base_agents[i].agent_id)
    /\ sink_log' = Append(sink_log, SinkCall("start_agent", i))
    /\ run_pc' = [run_pc EXCEPT ![i] = "awaiting"]
    /\ UNCHANGED run_result
    /\ UNCHANGED <<jobVars, coordVars, viewVars, engineVars, stepVars, orchVars>>

\* execute() returned r in time.
execute_returns(i, r) ==
    /\ run_pc[i] = "awaiting"
    /\ base_agents' = [base_agents EXCEPT ![i] = [@ EXCEPT !.state = "success",
                                                           !.result = r]]
    /\ agent_metrics' = end_agent(agent_metrics, base_agents[i].agent_id, TRUE, NoneStr, r)
    /\ sink_log' = Append(sink_log, SinkCall("end_agent", i))
    /\ run_result' = [run_result EXCEPT ![i] = WorkResult(r)]
    /\ run_pc' = [run_pc EXCEPT ![i] = "returned"]
    /\ UNCHANGED <<jobVars, coordVars, viewVars, engineVars, stepVars, orchVars>>

\* wait_for raised asyncio.TimeoutError.
execute_times_out(i) ==
    /\ run_pc[i] = "awaiting"
    /\ run_failed(i, "timeout", TimeoutMessage, TRUE)
    /\ UNCHANGED <<jobVars, coordVars, viewVars, engineVars, stepVars, orchVars>>

\* execute() raised an Exception.
execute_raises(i, message) ==
    /\ run_pc[i] = "awaiting"
    /\ run_failed(i, "failed", message, FALSE)
    /\ UNCHANGED <<jobVars, coordVars, viewVars, engineVars, stepVars, orchVars>>

\* The await was cancelled: asyncio.CancelledError passes "except Exception"
\* and leaves run_with_timeout.
execute_cancelled(i) ==
    /\ run_pc[i] = "awaiting"
    /\ run_pc' = [run_pc EXCEPT ![i] = "raised"]
    /\ UNCHANGED <<base_agents, run_result, agent_metrics, sink_log>>
    /\ UNCHANGED <<jobVars, coordVars, viewVars, engineVars, stepVars, orchVars>>

\* No agent created yet, the sink empty.
InitFactory ==
    /\ task = "task0"
    /\ constraints = <<"c0">>
    /\ decisions = <<>>
    /\ artifacts = EmptyMap
    /\ agent_state = post_init(EmptyMap)
    /\ CoordFresh
    /\ NoView
    /\ NoPlaybook
    /\ NoStep
    /\ NoTasks
    /\ NoBaseAgents

NextFactory ==
    \/ \E agent_id \in AgentIds : create_agent(agent_id)
    \/ \E i \in DOMAIN base_agents : call_run_with_timeout(i)
    \/ \E i \in DOMAIN base_agents, r \in WorkResults : execute_returns(i, r)
    \/ \E i \in DOMAIN base_agents : execute_times_out(i)
    \/ \E i \in DOMAIN base_agents, message \in RaisedMessages :
          execute_raises(i, message)
    \/ \E i \in DOMAIN base_agents : execute_cancelled(i)

SpecFactory == InitFactory /\ [][NextFactory]_vars

\* ------------------------------------------------------------- properties
\* execute_parallel has just ended (by returning or by raising) and nothing
\* was done on the coordinator since.
Finished == phase = "idle" /\ outcome # "none"
Returned == phase = "idle" /\ outcome = "returned"
Terminal(st) == st \in {"completed", "failed", "timeout"}
\* Registered names that have an agent_state entry.
Known == Registered \cap DOMAIN agent_state
\* Attempts the metrics counted for a in the current round.
RoundAttempts(a) == metrics[a].attempts - metrics0[a].attempts

\* C1: when execute_parallel returns, agent_state holds an entry for every
\* registered name and that entry's status is completed, failed or timeout.
C1_OneTerminalEntryPerAgent ==
    Returned =>
        \A a \in Registered :
            a \in DOMAIN agent_state /\ Terminal(agent_state[a].status)

\* The merge reaches name y: no name at or before y in the coordinator's order
\* was registered with max_retries = 0 under a name that has an entry (the
\* wrapper of such a task returns None, on which result.get raises).
MergeReaches(y) ==
    \A i \in 1..Index(y) :
        ~(agents[i] \in DOMAIN agent_state /\ max_retries[agents[i]] <= 0)

\* The status, stored result and attempt count of y as its own registration
\* and the outcome of its own last call give them; no sibling's behaviour
\* enters.
OwnStatus(y) ==
    IF max_retries[y] <= 0 THEN "active"
    ELSE CASE final[y].out = "ok" ->
                IF MergeReaches(y) THEN "completed" ELSE "active"
           [] final[y].out = "raise" ->
                IF MergeReaches(y) /\ ~TruthyStr(final[y].msg)
                THEN "completed" ELSE "failed"
           [] final[y].out = "timeout" ->
                IF MergeReaches(y) THEN "failed" ELSE "timeout"
           [] OTHER -> "unresolved"
OwnResult(y) ==
    IF max_retries[y] > 0 /\ final[y].out = "ok" /\ MergeReaches(y)
       /\ TruthyPayload(final[y].p)
    THEN final[y].p ELSE state0[y].result
\* y's task ran to its own end: a successful call, or max_retries failed ones.
RanToItsEnd(y) ==
    IF y \in DOMAIN agent_state /\ max_retries[y] > 0
    THEN \/ final[y].out = "ok"
         \/ final[y].out \in {"raise", "timeout"} /\ calls[y].n_calls = max_retries[y]
    ELSE calls[y].n_calls = 0

C3_NoExceptionEscapes == outcome # "raised"

\* An attempt of the round has started and not every task has resolved.
RoundInFlight ==
    /\ phase = "running"
    /\ \E a \in Registered : RoundAttempts(a) > 0
    /\ \E a \in Registered : pc[a] # "done"

\* C4: barrier-then-merge.  Between the start of the first attempt and the
\* moment every task has resolved, no field of the Job Record is written.
C4_NoWriteBeforeBarrier == [][RoundInFlight => UNCHANGED jobVars]_vars

\* What agent a does not owe to itself in the artifacts it reads through its
\* context is what the snapshot held.
SameButOwnWrites(a, now, then) ==
    \A k \in DOMAIN now \cup DOMAIN then :
        \/ k \in DOMAIN now /\ now[k] = ArtValue(a, "write")
        \/ k \in DOMAIN now /\ k \in DOMAIN then /\ now[k] = then[k]

\* C5: while an agent's call is in flight, every field it reads through its
\* context has the value the Job Record had when execute_parallel computed
\* the contexts (its own writes aside).
C5_ContextIsSnapshot ==
    \A a \in Registered :
        pc[a] = "running" =>
            \A k \in ctx[a] :
                IF k = "artifacts"
                THEN SameButOwnWrites(a, CtxRead(a, k), snap[k])
                ELSE CtxRead(a, k) = snap[k]

\* C6: once an agent_state entry is completed, failed or timeout, its status
\* never changes to a different value.
C6_TerminalStatusIsFinal ==
    [][\A n \in DOMAIN agent_state :
          Terminal(agent_state[n].status) =>
              agent_state'[n].status = agent_state[n].status]_vars

\* C7: after execute_parallel returns, an agent registered with
\* max_retries = 3 whose every attempt timed out has status timeout and an
\* attempt count of exactly 3.
C7_AlwaysTimeoutEndsTimeout ==
    Returned =>
        \A a \in Known :
            (max_retries[a] = 3 /\ calls[a].n_calls > 0
             /\ calls[a].n_timeouts = calls[a].n_calls /\ final[a].out = "timeout")
            => /\ agent_state[a].status = "timeout"
               /\ RoundAttempts(a) = 3

\* C8: an agent whose call fails k times and then succeeds (k + 1 <=
\* max_retries) ends completed with attempt count exactly k + 1.
C8_SuccessEndsCompleted ==
    Finished =>
        \A a \in Known :
            final[a].out = "ok" =>
                /\ agent_state[a].status = "completed"
                /\ RoundAttempts(a) = calls[a].n_calls
                /\ calls[a].n_calls <= max_retries[a]

\* C9: after the merge, an agent whose work function returned a payload with
\* an error field, or raised, is failed with that message; an agent is
\* completed only if its work function returned a payload without one.
C9_ErrorPayloadIsFailure ==
    Returned =>
        \A a \in Known :
            /\ (final[a].out = "ok" /\ TruthyStr(final[a].p.error))
                  => /\ agent_state[a].status = "failed"
                     /\ agent_state[a].error = final[a].p.error
            /\ final[a].out = "raise"
                  => /\ agent_state[a].status = "failed"
                     /\ TruthyStr(final[a].msg) => agent_state[a].error = final[a].msg
            /\ agent_state[a].status = "completed"
                  => final[a].out = "ok" /\ ~TruthyStr(final[a].p.error)

\* Positions, in the coordinator's order, of the agents recorded as completed
\* whose result carried key k in its artifacts sub-map.
Contributors(k) ==
    {i \in 1..Len(agents) :
        /\ agents[i] \in DOMAIN agent_state
        /\ agent_state[agents[i]].status = "completed"
        /\ k \in DOMAIN final[agents[i]].p.arts}
MaxOf(S) == CHOOSE i \in S : \A j \in S : j <= i

\* C10: after execute_parallel the artifacts hold every key they held before
\* the run and every key a completed agent returned; a key returned by
\* several agents has the value of the one latest in the coordinator's
\* registration order, in whatever order the agents finished.
C10_ArtifactUnion ==
    Finished =>
        /\ \A k \in DOMAIN snap["artifacts"] : k \in DOMAIN artifacts
        /\ \A k \in ArtKeys :
              Contributors(k) # {} =>
                  /\ k \in DOMAIN artifacts
                  /\ artifacts[k] = final[agents[MaxOf(Contributors(k))]].p.arts[k]

\* C10's case: two completed agents returned the same key, and the one later
\* in the registration order resolved first.
C10_Witness ==
    /\ Finished
    /\ \E k \in ArtKeys : Contributors(k) = {1, 2}
    /\ done_order = <<agents[2], agents[1]>>

\* C11: get_agent_context(role) returns exactly the fields of the fixed
\* mapping, each with the record's value, whatever the record holds: task and
\* constraints for the three known roles, artifacts in addition for drafter
\* and validator, decisions in addition for drafter, nothing for another role.
C11_ViewIsFixedMapping ==
    role_asked # NoneStr =>
        /\ DOMAIN view =
              (IF role_asked \in {"collector", "drafter", "validator"}
               THEN {"task", "constraints"} ELSE {})
              \cup (IF role_asked \in {"drafter", "validator"}
                    THEN {"artifacts"} ELSE {})
              \cup (IF role_asked = "drafter" THEN {"decisions"} ELSE {})
        /\ \A k \in DOMAIN view : view[k] = JobField(k)

\* C11's case: the collector's view of a record that holds artifacts and
\* decisions.
C11_Witness ==
    /\ role_asked = "collector"
    /\ DOMAIN view = {"task", "constraints"}
    /\ artifacts # EmptyMap
    /\ decisions # <<>>

\* The playbook's graph: ids, edges, what an id depends on directly or not.
Adjacency == build_adjacency(playbook.steps)
Range(f) == {f[i] : i \in DOMAIN f}
ValidDependencies == \A id \in DOMAIN Adjacency : Range(Adjacency[id]) \subseteq DOMAIN Adjacency
RECURSIVE DependsOn(_, _)
DependsOn(S, n) ==
    IF n = 0 THEN {}
    ELSE LET T == UNION {Range(Adjacency[x]) \cap DOMAIN Adjacency : x \in S}
         IN  T \cup DependsOn(T, n - 1)
Cyclic == \E id \in DOMAIN Adjacency : id \in DependsOn({id}, Cardinality(DOMAIN Adjacency))
\* execute_playbook got past the sort (it runs steps or has returned).
Sorted == wf_pc \in {"stepping", "returned"} /\ raised_by # "topological_sort"
FailedSteps ==
    {i \in DOMAIN execution_result.steps : execution_result.steps[i].status = "failed"}

\* C12: for an acyclic step list whose dependency ids all name steps of the
\* playbook, topological_sort returns every step exactly once and each step
\* after all of its dependencies.
C12_SortIsTopological ==
    (wf_pc \in {"stepping", "returned"} /\ ValidDependencies /\ ~Cyclic) =>
        /\ raised_by # "topological_sort"
        /\ Len(order) = Cardinality(DOMAIN Adjacency)
        /\ Range(order) = DOMAIN Adjacency
        /\ \A i \in DOMAIN order :
              \A d \in Range(Adjacency[order[i]]) :
                  \E j \in 1..(i - 1) : order[j] = d

\* C12's case: A without dependencies, B depending on A, C on A and B.
C12_Witness ==
    /\ wf_pc = "stepping"
    /\ Len(playbook.steps) = 3
    /\ playbook.steps[1].dependencies = <<>>
    /\ playbook.steps[2].dependencies = <<"A">>
    /\ playbook.steps[3].dependencies = <<"A", "B">>
    /\ order = <<"A", "B", "C">>

\* C13: a playbook whose steps form a dependency cycle is rejected:
\* execute_playbook executes no step and returns a report with an empty steps
\* list and status failed.
C13_CycleIsRejected ==
    (wf_pc \in {"stepping", "returned"} /\ Cyclic) =>
        /\ wf_pc = "returned"
        /\ executed = <<>>
        /\ execution_result.steps = <<>>
        /\ execution_result.status = "failed"

\* C14: a playbook with a dependency id that names none of its steps is
\* rejected before any step runs: the failure is raised while the graph is
\* built and ordered, no step is executed, and the report has an empty steps
\* list and status failed.
C14_MissingDependencyIsRejected ==
    (wf_pc \in {"stepping", "returned"} /\ ~ValidDependencies) =>
        /\ wf_pc = "returned"
        /\ raised_by = "topological_sort"
        /\ executed = <<>>
        /\ execution_result.steps = <<>>
        /\ execution_result.status = "failed"

\* C14's case: the second of two steps depends on an id that names no step.
C14_Witness ==
    /\ wf_pc = "returned"
    /\ Len(playbook.steps) = 2
    /\ playbook.steps[1].dependencies = <<>>
    /\ playbook.steps[2].dependencies = <<NoStepId>>
    /\ execution_result.status = "failed"

\* C15: under errorHandling = abort the steps run in the sorted order and the
\* run halts at the first failing step: a failed step result is the last of
\* the report, the run has returned with status failed, and no step after it
\* was executed.
C15_AbortHaltsAtFirstFailure ==
    (Sorted /\ playbook.errorHandling = "abort") =>
        LET n == Len(execution_result.steps)
        IN  /\ executed = SubSeq(order, 1, n)
            /\ \A k \in FailedSteps :
                  /\ k = n
                  /\ Len(executed) = k
                  /\ wf_pc = "returned"
                  /\ execution_result.status = "failed"

\* C15's case: the second of three steps fails.
C15_Witness ==
    /\ wf_pc = "returned"
    /\ playbook.errorHandling = "abort"
    /\ Len(order) = 3
    /\ FailedSteps = {2}
    /\ Len(execution_result.steps) = 2

\* C16: under errorHandling = continue every step of the sorted order is
\* executed, and the report's status is failed if a step failed and success
\* only if none did.
C16_ContinueReportsFailure ==
    (Sorted /\ wf_pc = "returned" /\ playbook.errorHandling = "continue") =>
        /\ executed = order
        /\ execution_result.status = (IF FailedSteps # {} THEN "failed" ELSE "success")

\* C17: no exception escapes execute_playbook, and the report it returns has
\* status success or failed.
C17_NoExceptionEscapesEngine ==
    /\ wf_pc # "raised"
    /\ wf_pc = "returned" => execution_result.status \in {"success", "failed"}

\* C18: every report execute_playbook returns has a completion time: after
\* normal completion, after an abort, after a failure of the graph.
C18_CompletedAtAlwaysSet ==
    wf_pc = "returned" => execution_result.completed_at # NoneStr

\* C18's case: the report of a run that the graph's failure ended.
C18_Witness ==
    /\ wf_pc = "returned"
    /\ raised_by = "topological_sort"
    /\ execution_result.status = "failed"
    /\ execution_result.completed_at = "utcnow"

\* C19: re-registering a name overwrites the prior registration: after every
\* register_agent call the coordinator holds one task per distinct name, the
\* task just registered under its name and the other names' tasks as they
\* were, and a round invokes, for each name, only the work function of the
\* task registered last.
C19_LastRegistrationWins ==
    [][/\ \A n \in AgentNames, r \in 1..2, f \in Funcs :
             register_agent(n, r, f) =>
                 /\ Cardinality(Registered') = Len(agents')
                 /\ Registered' = Registered \cup {n}
                 /\ agent_func'[n] = f /\ max_retries'[n] = r
                 /\ \A m \in AgentNames \ {n} :
                       agent_func'[m] = agent_func[m] /\ max_retries'[m] = max_retries[m]
       /\ \A a \in Registered' : calls'[a].funcs \subseteq {agent_func'[a]}]_vars

\* C19's case: a name was registered with both work functions, f2 last, and
\* the round that followed called that name's work function.
C19_Witness ==
    /\ Finished
    /\ \E a \in Registered :
          /\ reg_log[a] = Funcs
          /\ agent_func[a] = "f2"
          /\ calls[a].n_calls > 0
          /\ calls[a].funcs = {"f2"}

\* An agent registered with max_retries = 3 has resolved and every one of its
\* attempts timed out.
TimedOutThrice(a) ==
    /\ pc[a] = "done"
    /\ max_retries[a] = 3
    /\ calls[a].n_calls = 3
    /\ calls[a].n_timeouts = 3

\* The sum of a list of delays.
RECURSIVE SumOf(_)
SumOf(d) == IF d = <<>> THEN 0 ELSE Head(d) + SumOf(Tail(d))

\* C20 as stated: an agent with max_retries = 3 whose every attempt times out
\* sleeps the three backoff delays 0.5, 1.0 and 2.0 seconds, at least 3.5
\* seconds in total (delays in half seconds).
C20_ThreeBackoffDelays ==
    \A a \in Registered :
        TimedOutThrice(a) => slept[a] = <<1, 2, 4>> /\ SumOf(slept[a]) >= 7

\* C20 as amended: such an agent sleeps two backoff delays, 0.5 and 1.0
\* seconds, one after each timed-out attempt but the last: 1.5 seconds in
\* total.
C20_TwoBackoffDelays ==
    \A a \in Registered :
        TimedOutThrice(a) => slept[a] = <<1, 2>> /\ SumOf(slept[a]) = 3

\* C20's case: the three attempts of an agent timed out and the round ended.
C20_Witness ==
    /\ Finished
    /\ \E a \in Registered : TimedOutThrice(a) /\ final[a].out = "timeout"

\* C21: the retry schedule.  A failed attempt (timeout or raised error) with
\* index i that is not the last allowed one is followed by a backoff sleep,
\* and attempt i + 1 starts only when that sleep of 0.5 * 2^i seconds (2^i
\* half seconds) is over; the first attempt starts without any sleep; after
\* the last allowed attempt fails the task is done, with no further sleep and
\* no further attempt.
C21_RetrySchedule ==
    [][\A a \in AgentNames :
          /\ (work_timeout(a) \/ \E msg \in ExcMessages : work_raise(a, msg)) =>
                IF attempt[a] < max_retries[a] - 1
                THEN pc'[a] = "sleeping" /\ slept'[a] = slept[a]
                ELSE pc'[a] = "done" /\ slept'[a] = slept[a]
                     /\ metrics'[a] = metrics[a]
          /\ metrics'[a].attempts = metrics[a].attempts + 1 =>
                \/ pc[a] = "created" /\ attempt'[a] = 0 /\ slept'[a] = <<>>
                \/ /\ pc[a] = "sleeping"
                   /\ attempt'[a] = attempt[a] + 1
                   /\ attempt'[a] < max_retries[a]
                   /\ slept'[a] = Append(slept[a], 2 ^ attempt[a])
          /\ pc[a] = "done" /\ pc'[a] # "done" => phase = "idle"]_vars

\* C21's case: the third attempt of an agent is running, after sleeps of 0.5
\* and 1.0 seconds.
C21_Witness ==
    \E a \in Registered :
        pc[a] = "running" /\ attempt[a] = 2 /\ slept[a] = <<1, 2>>

\* C22: the fan-in barrier.  The merge starts (the round leaves "running")
\* only when every registered task has resolved, none with an attempt in
\* flight, a backoff sleep pending or retries left to run.
C22_MergeAfterBarrier ==
    [][phase = "running" /\ phase' # "running" =>
          \A a \in Registered :
              /\ pc[a] = "done"
              /\ results[a].kind # "pending"
              /\ RanToItsEnd(a)]_vars

\* C22's case: the round has ended; the agent registered first retried after
\* a backoff and resolved after the agent registered second.
C22_Witness ==
    /\ Finished
    /\ Len(agents) = 2
    /\ done_order = <<agents[2], agents[1]>>
    /\ slept[agents[1]] # <<>>

\* Latencies the metrics took in for a in the current round.
RoundLatencies(a) == metrics[a].n_latency - metrics0[a].n_latency

\* C23: every attempt, whether it succeeds, raises or times out, counts in
\* the attempt count and has its latency folded into the cumulative and the
\* maximum latency: for each agent the calls that have ended are as many as
\* the latencies recorded, and after a round these are as many as the
\* attempts counted.
C23_EveryAttemptUpdatesMetrics ==
    \A a \in Registered :
        /\ RoundLatencies(a) = calls[a].n_calls
        /\ Finished => RoundLatencies(a) = RoundAttempts(a)

\* A step of this body has an unknown action, or is a query or communicate
\* step whose connector is not registered.
Misconfigured(body) ==
    \/ body.action \notin {"query", "evaluate", "template", "communicate"}
    \/ body.action \in {"query", "communicate"} /\ body.connector \notin ConnectorRegistry

\* C24: a step with an unknown action, or a query/communicate step naming a
\* connector that is not registered, fails only that step: its step result is
\* appended with status failed and an error message, the results before it
\* stay, no exception leaves _execute_step, and under errorHandling = continue
\* the run goes on to the next step and ends with every step executed.
C24_MisconfiguredStepFailsAlone ==
    [][\A body \in StepBodies, raises \in BOOLEAN :
          (Misconfigured(body) /\ execute_step(body, raises)) =>
              LET n == Len(execution_result.steps) + 1
                  after == execution_result'.steps
              IN  /\ Len(after) = n
                  /\ SubSeq(after, 1, n - 1) = execution_result.steps
                  /\ after[n].step_id = order[n]
                  /\ after[n].status = "failed"
                  /\ after[n].error \in {UnknownActionMsg, NoConnectorMsg}
                  /\ raised_by' # "_execute_step"
                  /\ playbook.errorHandling = "continue" =>
                        IF n < Len(order)
                        THEN wf_pc' = "stepping"
                        ELSE wf_pc' = "returned" /\ executed' = order]_vars

\* C24's case: under continue the first of three steps has an unknown action,
\* the second names a connector that is not registered, the third succeeds.
C24_Witness ==
    /\ wf_pc = "returned"
    /\ playbook.errorHandling = "continue"
    /\ Len(execution_result.steps) = 3
    /\ execution_result.steps[1].error = UnknownActionMsg
    /\ execution_result.steps[2].error = NoConnectorMsg
    /\ execution_result.steps[3].status = "success"

\* C25: within a run the steps execute one at a time and in dependency
\* order: each executed step has its result in the report before the next one
\* starts, and a step is executed only after every one of its dependencies
\* was executed and has its result in the report.
C25_StepsInDependencyOrder ==
    Sorted =>
        /\ Len(execution_result.steps) = Len(executed)
        /\ \A i \in DOMAIN executed :
              \A d \in Range(Adjacency[executed[i]]) :
                  \E j \in 1..(i - 1) :
                      executed[j] = d /\ execution_result.steps[j].step_id = d

\* C26: the report's steps list has exactly one entry per executed step, in
\* execution order, each with status success or failed and a duration.
C26_OneResultPerExecutedStep ==
    Sorted =>
        /\ Len(execution_result.steps) = Len(executed)
        /\ \A i \in DOMAIN executed :
              /\ execution_result.steps[i].step_id = executed[i]
              /\ execution_result.steps[i].status \in {"success", "failed"}
              /\ execution_result.steps[i].duration_ms # NoneStr
              /\ \A j \in DOMAIN executed : executed[j] = executed[i] => j = i

\* C26's case: a run of three steps under continue, the first failed, the
\* second succeeded.
C26_Witness ==
    /\ wf_pc = "returned"
    /\ Len(executed) = 3
    /\ execution_result.steps[1].status = "failed"
    /\ execution_result.steps[2].status = "success"
    /\ execution_result.steps[1].duration_ms = "int"

\* What the documentation says of one criterion: whether it is one of those
\* it describes, and what it evaluates to.
Described(c) ==
    c.metric \notin DOMAIN variables \/ c.threshold \in {<<">", "1">>, <<"<", "1">>}
Holds(c) ==
    /\ c.metric \in DOMAIN variables
    /\ IF c.threshold[1] = ">" THEN variables[c.metric] > 1 ELSE variables[c.metric] < 1

\* C27: an evaluate step succeeds with passed = the conjunction of its
\* criteria: a criterion on an absent metric is false, "> n" is true exactly
\* when the value is greater than n, "< n" exactly when it is less, and no
\* criteria pass.
C27_EvaluateIsConjunction ==
    (step_output.status # "pending" /\ \A i \in DOMAIN config : Described(config[i]))
        => step_output = [status |-> "success",
                          passed |-> \A i \in DOMAIN config : Holds(config[i])]

\* C27's case: a "> 1" criterion on a value of 2 and a "< 1" criterion on a
\* value of 0 were evaluated, and the step passed.
C27_Witness ==
    /\ step_output = [status |-> "success", passed |-> TRUE]
    /\ config = <<[metric |-> "m1", threshold |-> <<">", "1">>],
                  [metric |-> "m2", threshold |-> <<"<", "1">>]>>
    /\ variables = [m \in Metrics |-> IF m = "m1" THEN 2 ELSE 0]

\* C28: update_agent_state with a name that has no agent_state entry leaves
\* the whole Job Record as it was: no entry is created, none is modified.
C28_UnknownNameIsNoOp ==
    [][(name_asked' # NoneStr /\ name_asked' \notin DOMAIN agent_state)
            => UNCHANGED jobVars]_vars

\* C28's case: the record holds drafter only, drafter was updated, and the
\* last call named collector, which has no entry.
C28_Witness ==
    /\ name_asked = "collector"
    /\ DOMAIN agent_state = {"drafter"}
    /\ agent_state["drafter"].status = "completed"

\* The names the documentation calls known: the three roles and every
\* registered name.
KnownRoles == Roles \cup Registered

\* C29: when an execute_parallel begins, every known role has an agent_state
\* entry (one: agent_state is keyed by name), and no step ever removes an
\* entry.
C29_KnownRolesKeepEntries ==
    [][/\ (phase = "idle" /\ phase' = "running")
            => \A n \in KnownRoles : n \in DOMAIN agent_state
       /\ DOMAIN agent_state \subseteq DOMAIN agent_state']_vars

\* C30: the latency_ms the snapshot emits for an entry is
\* (timestamp_end - timestamp_start) in milliseconds when both timestamps are
\* present, a timestamp of 0 included, and zero when one is absent.
C30_LatencyIsDifference ==
    \A n \in DOMAIN agent_state :
        LET t0 == agent_state[n].timestamp_start
            t1 == agent_state[n].timestamp_end
            emitted == to_dict.agent_state[n].latency_ms
        IN  IF t0 # NoneNum /\ t1 # NoneNum
            THEN emitted = (t1 - t0) * 1000
            ELSE emitted = 0

\* The calls of a's work function in this round: those that ended and the one
\* in flight.
Invoked(a) == calls[a].n_calls + (IF pc[a] = "running" THEN 1 ELSE 0)

\* C31: in every state of a round each agent's attempt count is at most its
\* max_retries and equals the number of times its work function was invoked
\* so far (those of earlier rounds since its registration and those of this
\* round); an agent registered with max_retries = 0 is never invoked.
C31_AttemptsBounded ==
    phase = "running" =>
        \A a \in Registered :
            /\ metrics[a].attempts <= max_retries[a]
            /\ metrics[a].attempts = metrics0[a].attempts + Invoked(a)
            /\ max_retries[a] = 0 => Invoked(a) = 0

\* The key/values the artifacts store got in this round: those it did not
\* hold when the round began.
GainedKeys ==
    {k \in DOMAIN artifacts :
        k \notin DOMAIN snap.artifacts \/ snap.artifacts[k] # artifacts[k]}

\* C32: after execute_parallel, no key/value that comes from an agent recorded
\* as failed or timeout is in the Job Record's artifacts.
C32_OnlyCompletedContribute ==
    Returned =>
        \A k \in GainedKeys :
            LET a == artifacts[k].by
            IN  (a \in Registered /\ a \in DOMAIN agent_state)
                    => agent_state[a].status \notin {"failed", "timeout"}

\* C33: completed is written by the merge step only.  While a round is in
\* flight an entry whose task has not started is as it was when the round
\* began, the entry of a started task never reads completed, and an agent
\* whose work function already returned still reads active.
C33_CompletedOnlyByMerge ==
    phase = "running" =>
        /\ \A n \in DOMAIN agent_state \ Registered : agent_state[n] = state0[n]
        /\ \A a \in Registered \cap DOMAIN agent_state :
              /\ pc[a] = "created" => agent_state[a] = state0[a]
              /\ pc[a] # "created" => agent_state[a].status # "completed"
              /\ (pc[a] = "done" /\ final[a].out = "ok")
                    => agent_state[a].status = "active"

\* C33's case: one agent's work function has returned and its sibling is
\* still at work.
C33_Witness ==
    /\ phase = "running"
    /\ \E a, b \in Registered :
          /\ pc[a] = "done" /\ final[a].out = "ok"
          /\ agent_state[a].status = "active"
          /\ pc[b] \in {"running", "sleeping"}

\* C34: no step of the coordinator changes the Job Record's task, constraints
\* or decisions, adds or removes an agent_state key, or writes a field of an
\* entry other than status, result and error.
C34_CoordinatorFrame ==
    [][/\ task' = task
       /\ constraints' = constraints
       /\ decisions' = decisions
       /\ DOMAIN agent_state' = DOMAIN agent_state
       /\ \A n \in DOMAIN agent_state :
             /\ agent_state'[n].timestamp_start = agent_state[n].timestamp_start
             /\ agent_state'[n].timestamp_end = agent_state[n].timestamp_end]_vars

\* C34's case: a round returned in which drafter was completed and
\* collector, registered without an agent_state entry, was merged as failed.
C34_Witness ==
    /\ Returned
    /\ "collector" \in Registered
    /\ DOMAIN agent_state = {"drafter"}
    /\ agent_state["drafter"].status = "completed"
    /\ results["collector"].kind = "exception"

\* C35: no update clears a stored error or result, so on a record reused for
\* a follow-up run an agent that had an error and now ends completed still
\* carries that error string, in its entry and in the snapshot.
C35_ErrorSurvivesSuccess ==
    /\ \A n \in DOMAIN agent_state :
          /\ TruthyStr(state0[n].error) => TruthyStr(agent_state[n].error)
          /\ TruthyPayload(state0[n].result) => TruthyPayload(agent_state[n].result)
    /\ Returned =>
          \A a \in Registered \cap DOMAIN agent_state :
              (agent_state[a].status = "completed" /\ TruthyStr(state0[a].error))
                  => /\ agent_state[a].error = state0[a].error
                     /\ to_dict.agent_state[a].error = state0[a].error

\* C35's case: the follow-up round returned with an agent completed whose
\* entry carries the error of the earlier round.
C35_Witness ==
    /\ Returned
    /\ \E a \in Registered \cap DOMAIN agent_state :
          /\ agent_state[a].status = "completed"
          /\ final[a].out = "ok"
          /\ state0[a].status = "failed"
          /\ agent_state[a].error = "boom"
          /\ to_dict.agent_state[a].error = "boom"

\* Configs of evaluate steps with at least one criterion: every single
\* criterion, and every pair of "> 1" and "< 1" criteria.
SomeCriteria ==
    {<<c>> : c \in Criteria} \cup
    {<<c, d>> : c, d \in [metric : Metrics, threshold : {<<">", "1">>, <<"<", "1">>}]}

\* C36: during execute_playbook the context's variables map is empty and
\* stays empty, whatever steps were executed: every name looked up in it
\* resolves to None and every evaluate step with at least one criterion
\* gives passed = False.
C36_VariablesStayEmpty ==
    wf_pc \in {"stepping", "returned"} =>
        /\ variables = EmptyMap
        /\ \A name \in Metrics \cup Range(StepIds) :
              get_variable(variables, name) = NoneNum
        /\ \A cfg \in SomeCriteria :
              execute_step_evaluate(cfg, variables) =
                  [status |-> "success", passed |-> FALSE]

\* C36's case: three steps were executed, each with success.
C36_Witness ==
    /\ wf_pc = "returned"
    /\ Len(executed) = 3
    /\ \A i \in 1..3 : execution_result.steps[i].status = "success"
    /\ variables = EmptyMap

C38_TimestampsNeverSet ==
    \A n \in DOMAIN agent_state :
        /\ agent_state[n].timestamp_start = NoneNum
        /\ agent_state[n].timestamp_end = NoneNum
        /\ to_dict.agent_state[n].latency_ms = 0

\* C38's case: a round returned in which an agent needed two attempts and
\* ended completed.
C38_Witness ==
    /\ Returned
    /\ \E a \in Registered \cap DOMAIN agent_state :
          /\ calls[a].n_calls = 2
          /\ agent_state[a].status = "completed"
          /\ agent_state[a].timestamp_end = NoneNum
          /\ to_dict.agent_state[a].latency_ms = 0

\* Task i is through: process_tasks has its result.
Through(i) == \E k \in DOMAIN completed_tasks : completed_tasks[k] = i

\* C39: a task of the autonomous orchestrator whose every try failed is
\* executed exactly max_retries (3) times, the retries after backoffs of
\* 2^retry_count seconds (2, then 4), and then it is given up: its status is
\* failed, its retry_count is max_retries and execute_task returned a
\* {status: failed} result to process_tasks; no task is tried more often.
C39_FailingTaskTriedMaxRetriesTimes ==
    \A i \in DOMAIN tasks :
        /\ tries[i] <= TaskMaxRetries
        /\ backoffs[i] = [k \in 1..Len(backoffs[i]) |-> 2 ^ k]
        /\ Len(backoffs[i]) = IF tries[i] = 0 THEN 0
                              ELSE IF loop_pc = "sleep" /\ current = i
                                   THEN tries[i] ELSE tries[i] - 1
        /\ tasks[i].retry_count = TaskMaxRetries
             => /\ tasks[i].status = "failed"
                /\ Through(i)
        /\ (tasks[i].status = "failed"
              \/ (Through(i) /\ tries[i] > 0 /\ tasks[i].retry_count = tries[i]))
             => /\ tries[i] = TaskMaxRetries
                /\ tasks[i].retry_count = TaskMaxRetries
                /\ backoffs[i] = <<2, 4>>
                /\ tasks[i].result = "failed"
                /\ Through(i)

\* A task was given up after its third failed try, the second and the third
\* after backoffs of 2 and 4 seconds.
C39_Witness ==
    \E i \in DOMAIN tasks :
        /\ tasks[i].status = "failed"
        /\ tries[i] = 3
        /\ backoffs[i] = <<2, 4>>
        /\ Through(i)

\* The start_agent and end_agent calls the sink received from agent object i.
StartsAndEnds(i) ==
    SelectSeq(sink_log, LAMBDA c : c.by = i /\ c.call \in {"start_agent", "end_agent"})

\* Where agent i's run_with_timeout call stands, its state, what it returned
\* and what the sink received from it agree.
RunInStep(i) ==
    LET a == base_agents[i]
        sink_calls == [k \in DOMAIN StartsAndEnds(i) |-> StartsAndEnds(i)[k].call]
    IN  /\ run_pc[i] = "idle" => a.state = "pending" /\ sink_calls = <<>>
        /\ run_pc[i] = "awaiting" => a.state = "running" /\ sink_calls = <<"start_agent">>
        /\ run_pc[i] = "returned"
             => /\ a.state \in {"success", "timeout", "failed"}
                /\ a.state = "success" => run_result[i] = WorkResult(a.result)
                /\ a.state \in {"timeout", "failed"}
                     => run_result[i] = ErrorPayload(a.error, a.agent_id)
                          /\ a.error # NoneStr
                /\ sink_calls = <<"start_agent", "end_agent">>

\* C40: run_with_timeout never raises; the agent goes pending -> running ->
\* one of success, timeout, failed; on success the call returns the work
\* result, on timeout or error a payload with an error field; the metrics
\* sink receives one start_agent and then one end_agent from the agent.
C40_RunNeverRaises ==
    \A i \in DOMAIN base_agents :
        /\ run_pc[i] # "raised"
        /\ RunInStep(i)

====
